---------------------------- MODULE Spec2Model ----------------------------
(***************************************************************************)
(* Model of firecracker-http-client: the path validators                   *)
(* (src/src/validation.rs), the descriptors and their derived validators   *)
(* (src/src/models.rs, logger.rs, metrics.rs, snapshot.rs, action.rs) and  *)
(* the client operations (src/src/lib.rs and one module per resource).     *)
(*                                                                         *)
(* Strings are sequences of one-character strings, so that prefix,         *)
(* substring, segment and regex tests are computed and not assumed.        *)
(* An Option<T> is a sequence of length at most one: None is << >> and     *)
(* Some(x) is <<x>>.                                                       *)
(***************************************************************************)
EXTENDS Integers, Sequences, FiniteSets, TLC

VARIABLES
    fs,        \* the host filesystem: node (list of segment names) -> entry
    base_url,  \* FirecrackerClient.base_url
    pc,        \* position of the caller: "idle", "awaiting" (send().await), "done"
    call,      \* the operation being called and its arguments
    result,    \* what the call returned (meaningful when pc = "done")
    sent,      \* the HTTP requests sent during the current call, in order
    response,  \* what send().await yielded in the current call
    reads,     \* the filesystem reads made during the current call, in order
    threads,   \* threads calling validate() concurrently: thread -> its position
    lazy       \* the lazy_static regexes: name -> state of its one-time initialisation

vars == <<fs, base_url, pc, call, result, sent, response, reads, threads, lazy>>

(***************************************************************************)
(* Bounds                                                                  *)
(***************************************************************************)
\* longest string handed to validate_unix_path in SpecPath
MaxPathLen == 7

(***************************************************************************)
(* Strings                                                                 *)
(***************************************************************************)
NUL == "NUL"    \* the byte 0, written '\0' in the source
SLASH == "/"
DOT == "."

PathAlphabet == {SLASH, DOT, "a", "b", NUL}

None == << >>
Some(x) == <<x>>

\* str::starts_with(char)
starts_with(s, c) == Len(s) >= 1 /\ s[1] = c

\* str::contains(char)
contains_char(s, c) == \E i \in 1..Len(s) : s[i] = c

\* str::contains(&str): pat occurs as a contiguous substring of s
contains_str(s, pat) ==
    \E i \in 1..(Len(s) - Len(pat) + 1) :
        \A j \in 1..Len(pat) : s[i + j - 1] = pat[j]

\* the pieces of s between occurrences of '/', in order (empty pieces kept)
RECURSIVE SplitFrom(_, _, _, _)
SplitFrom(s, i, cur, acc) ==
    IF i > Len(s) THEN Append(acc, cur)
    ELSE IF s[i] = SLASH THEN SplitFrom(s, i + 1, << >>, Append(acc, cur))
    ELSE SplitFrom(s, i + 1, Append(cur, s[i]), acc)

Segments(s) == SplitFrom(s, 1, << >>, << >>)

\* the segments that name an entry: empty segments and "." are dropped
RECURSIVE NameSegments(_)
NameSegments(segs) ==
    IF segs = << >> THEN << >>
    ELSE IF Head(segs) = << >> \/ Head(segs) = <<DOT>> THEN NameSegments(Tail(segs))
    ELSE <<Head(segs)>> \o NameSegments(Tail(segs))

(***************************************************************************)
(* std::path::Path on Unix                                                 *)
(***************************************************************************)
RootDir == <<SLASH>>
CurDir == <<DOT>>
ParentDir == <<DOT, DOT>>

\* components without the RootDir component
components_without_root(path) ==
    LET segs == Segments(path)
        lead == IF ~starts_with(path, SLASH) /\ Len(segs) >= 1 /\ segs[1] = CurDir
                THEN <<CurDir>> ELSE << >>
    IN  lead \o NameSegments(segs)

\* Path::components(): RootDir for a leading '/', CurDir for a leading "."
\* of a relative path, then one component per non-empty segment, with
\* interior "." segments dropped and ".." kept as ParentDir.
components(path) ==
    LET segs == Segments(path)
        lead == IF starts_with(path, SLASH) THEN <<RootDir>>
                ELSE IF Len(segs) >= 1 /\ segs[1] = CurDir THEN <<CurDir>>
                ELSE << >>
    IN  lead \o NameSegments(segs)

\* the path string that a list of components spells
RECURSIVE JoinNames(_)
JoinNames(names) ==
    IF names = << >> THEN << >>
    ELSE IF Len(names) = 1 THEN names[1]
    ELSE names[1] \o <<SLASH>> \o JoinNames(Tail(names))

JoinPath(cs) ==
    IF cs # << >> /\ cs[1] = RootDir THEN <<SLASH>> \o JoinNames(Tail(cs))
    ELSE JoinNames(cs)

\* Path::parent(): the path without its last component; None when the path
\* is empty or ends in the root.
parent(path) ==
    LET cs == components(path) IN
    IF cs = << >> \/ cs[Len(cs)] = RootDir THEN None
    ELSE Some(JoinPath(SubSeq(cs, 1, Len(cs) - 1)))

(***************************************************************************)
(* The host filesystem.  A node is the list of segment names leading to   *)
(* it from the root; an entry is absent, a file or a directory, with its  *)
(* permission mode.  Search permission on directories is not modelled.    *)
(***************************************************************************)
NameA == <<"a">>
NameB == <<"b">>
NameDots == <<"a", DOT, DOT, "b">>

Root == << >>
FsNodes == {Root, <<NameA>>, <<NameA, NameB>>, <<NameDots>>}

Absent == [kind |-> "absent", mode |-> 0]
File(mode) == [kind |-> "file", mode |-> mode]
Dir(mode) == [kind |-> "dir", mode |-> mode]
RootEntry == Dir(493)      \* 0o755

\* the entries other processes create at each node: /a is a file or a
\* directory, writable (0o644, 0o755) or read-only (0o444, 0o555); /a/b and
\* /a..b are writable files
NodeEntries(node) ==
    IF node = <<NameA>> THEN {File(420), File(292), Dir(493), Dir(365)}
    ELSE {File(420)}

\* mode & 0o200
OwnerWriteBit == 128
owner_writable(mode) == (mode \div OwnerWriteBit) % 2 = 1

NodeParent(node) == SubSeq(node, 1, Len(node) - 1)

\* stat(2): walk the segments from the current node; every step needs the
\* current entry to be a directory, "" and "." stay, ".." goes up.
RECURSIVE Walk(_, _, _)
Walk(segs, node, F) ==
    IF segs = << >> THEN F[node]
    ELSE IF F[node].kind # "dir" THEN Absent
    ELSE IF Head(segs) = << >> \/ Head(segs) = CurDir THEN Walk(Tail(segs), node, F)
    ELSE IF Head(segs) = ParentDir
         THEN Walk(Tail(segs), IF node = Root THEN Root ELSE NodeParent(node), F)
    ELSE LET child == Append(node, Head(segs)) IN
         IF child \notin DOMAIN F \/ F[child] = Absent THEN Absent
         ELSE Walk(Tail(segs), child, F)

\* the entry a path string resolves to (the working directory is the root);
\* Absent when stat fails: no such entry, a file used as a directory, the
\* empty path, or a path containing NUL
Stat(path, F) ==
    IF path = << >> \/ contains_char(path, NUL) THEN Absent
    ELSE Walk(Segments(path), Root, F)

\* Path::exists()
exists(path, F) == Stat(path, F) # Absent

(***************************************************************************)
(* validation.rs: results                                                  *)
(***************************************************************************)
Ok == [ok |-> TRUE, code |-> "", message |-> ""]

ValidationError(code) == [ok |-> FALSE, code |-> code, message |-> ""]

path_validation_error(message) ==
    [ok |-> FALSE, code |-> "invalid_path", message |-> message]

EmptyPath == path_validation_error("Path cannot be empty")
NotAbsolute == path_validation_error("Path must be absolute")
IllegalSegment ==
    path_validation_error("Path cannot contain parent directory references or null characters")
PathNotFound == path_validation_error("Path does not exist")
NotWritable == path_validation_error("Path is not writable")
ParentMissing == path_validation_error("Parent directory does not exist")
ParentNotWritable == path_validation_error("Parent directory is not writable")

(***************************************************************************)
(* validation.rs: validate_unix_path                                       *)
(***************************************************************************)
\* validate_unix_path without the test for NUL
validate_unix_path_nul_unchecked(path) ==
    IF path = << >> THEN EmptyPath
    ELSE IF ~starts_with(path, SLASH) THEN NotAbsolute
    ELSE IF contains_str(path, <<DOT, DOT>>) THEN IllegalSegment
    ELSE Ok

validate_unix_path(path) ==
    IF path = << >> THEN EmptyPath
    ELSE IF ~starts_with(path, SLASH) THEN NotAbsolute
    ELSE IF contains_char(path, NUL) \/ contains_str(path, <<DOT, DOT>>)
         THEN IllegalSegment
    ELSE IF Len(components(path)) = 0 THEN ValidationError("path_invalid_format")
    ELSE Ok

(***************************************************************************)
(* validation.rs: validate_existing_path, validate_writable_path           *)
(* Each returns the result together with the filesystem reads it made.     *)
(* F is the filesystem as the exists() reads see it and M the filesystem   *)
(* as the later metadata() reads see it: they differ when another process  *)
(* changes the filesystem in between.                                      *)
(***************************************************************************)
ReadExists(path) == <<"exists", path>>
ReadMetadata(path) == <<"metadata", path>>

\* validate_existing_path without the syntax check: the filesystem is asked
\* about any string
validate_existing_path_unchecked(path, F) ==
    IF ~exists(path, F) THEN [r |-> PathNotFound, reads |-> <<ReadExists(path)>>]
    ELSE [r |-> Ok, reads |-> <<ReadExists(path)>>]

validate_existing_path(path, F) ==
    LET u == validate_unix_path(path) IN
    IF ~u.ok THEN [r |-> u, reads |-> << >>]
    ELSE IF ~exists(path, F) THEN [r |-> PathNotFound, reads |-> <<ReadExists(path)>>]
    ELSE [r |-> Ok, reads |-> <<ReadExists(path)>>]

\* metadata_denies that also denies when the metadata cannot be read
metadata_denies_unreadable(path, M) ==
    LET md == Stat(path, M) IN md = Absent \/ ~owner_writable(md.mode)

\* `if let Ok(metadata) = p.metadata() { if mode & 0o200 == 0 {..} }`:
\* TRUE when the metadata is read and the owner-write bit is clear
metadata_denies(path, M) ==
    LET md == Stat(path, M) IN md # Absent /\ ~owner_writable(md.mode)

\* validate_writable_path with one message for its three failures
validate_writable_path_one_message(path, F, M) ==
    LET u == validate_unix_path(path) IN
    IF ~u.ok THEN [r |-> u, reads |-> << >>]
    ELSE IF exists(path, F)
    THEN [r |-> IF metadata_denies(path, M) THEN NotWritable ELSE Ok,
          reads |-> <<ReadExists(path), ReadMetadata(path)>>]
    ELSE LET par == parent(path) IN
         IF par = None THEN [r |-> Ok, reads |-> <<ReadExists(path)>>]
         ELSE IF ~exists(par[1], F)
         THEN [r |-> NotWritable, reads |-> <<ReadExists(path), ReadExists(par[1])>>]
         ELSE [r |-> IF metadata_denies(par[1], M) THEN NotWritable ELSE Ok,
               reads |-> <<ReadExists(path), ReadExists(par[1]), ReadMetadata(par[1])>>]

validate_writable_path(path, F, M) ==
    LET u == validate_unix_path(path) IN
    IF ~u.ok THEN [r |-> u, reads |-> << >>]
    ELSE IF exists(path, F)
    THEN [r |-> IF metadata_denies(path, M) THEN NotWritable ELSE Ok,
          reads |-> <<ReadExists(path), ReadMetadata(path)>>]
    ELSE LET par == parent(path) IN
         IF par = None THEN [r |-> Ok, reads |-> <<ReadExists(path)>>]
         ELSE IF ~exists(par[1], F)
         THEN [r |-> ParentMissing, reads |-> <<ReadExists(path), ReadExists(par[1])>>]
         ELSE [r |-> IF metadata_denies(par[1], M) THEN ParentNotWritable ELSE Ok,
               reads |-> <<ReadExists(path), ReadExists(par[1]), ReadMetadata(par[1])>>]

(***************************************************************************)
(* Inputs                                                                  *)
(***************************************************************************)
PathEmpty == << >>
PathRelative == <<"a", SLASH, "b">>
PathA == <<SLASH, "a">>
PathAB == <<SLASH, "a", SLASH, "b">>
PathATrailing == <<SLASH, "a", SLASH>>
PathParentRef == <<SLASH, "a", SLASH, DOT, DOT, SLASH, "a">>
PathDots == <<SLASH, "a", DOT, DOT, "b">>

\* the path strings handed to the operations that consult the filesystem
FsPaths == {PathEmpty, PathRelative, PathA, PathAB, PathATrailing, PathParentRef, PathDots}

(***************************************************************************)
(* Filesystem changes made by other processes                              *)
(***************************************************************************)
IsPrefix(a, b) == Len(a) <= Len(b) /\ SubSeq(b, 1, Len(a)) = a

\* the entry at node and everything below it removed
Removed(F, node) == [n \in DOMAIN F |-> IF IsPrefix(node, n) THEN Absent ELSE F[n]]

CanCreate(F, node) ==
    /\ node # Root
    /\ F[node] = Absent
    /\ F[NodeParent(node)].kind = "dir"

\* what the metadata() reads of one call may see: the filesystem of the
\* exists() reads, or that filesystem with one entry removed in between
LaterFs(F) == {F} \cup {Removed(F, n) : n \in {m \in DOMAIN F \ {Root} : F[m] # Absent}}

FsCreate ==
    /\ pc = "idle"
    /\ \E node \in FsNodes :
         /\ CanCreate(fs, node)
         /\ \E e \in NodeEntries(node) : fs' = [fs EXCEPT ![node] = e]
    /\ UNCHANGED <<base_url, pc, call, result, sent, response, reads, threads, lazy>>

FsRemove ==
    /\ pc = "idle"
    /\ \E node \in FsNodes \ {Root} :
         /\ fs[node] # Absent
         /\ fs' = Removed(fs, node)
    /\ UNCHANGED <<base_url, pc, call, result, sent, response, reads, threads, lazy>>

FsChmod ==
    /\ pc = "idle"
    /\ \E node \in FsNodes \ {Root} :
         /\ fs[node] # Absent
         /\ \E e \in NodeEntries(node) :
              /\ e.kind = fs[node].kind
              /\ e.mode # fs[node].mode
              /\ fs' = [fs EXCEPT ![node] = e]
    /\ UNCHANGED <<base_url, pc, call, result, sent, response, reads, threads, lazy>>

(***************************************************************************)
(* The caller                                                              *)
(***************************************************************************)
NoCall == [op |-> "none"]
NoResult == [kind |-> "none"]
NoResponse == [kind |-> "none"]

\* a validator's result as the caller sees it
Validated(res) == [kind |-> "validated", r |-> res]

\* a validator that probes writability by creating the missing file
Finish_probe(c, res, rd, F) ==
    /\ pc' = "done"
    /\ call' = c
    /\ result' = res
    /\ reads' = rd
    /\ fs' = IF c.op = "validate_writable_path" /\ c.path = PathA /\ F[<<NameA>>] = Absent
             THEN [F EXCEPT ![<<NameA>>] = File(292)]
             ELSE F

\* the call is over: the caller holds its result
Finish(c, res, rd, F) ==
    /\ pc' = "done"
    /\ call' = c
    /\ result' = res
    /\ reads' = rd
    /\ fs' = F

\* the caller drops the result and is ready for the next call
Return ==
    /\ pc = "done"
    /\ pc' = "idle"
    /\ call' = NoCall
    /\ result' = NoResult
    /\ sent' = << >>
    /\ response' = NoResponse
    /\ reads' = << >>
    /\ UNCHANGED <<fs, base_url, threads, lazy>>

ValidateUnixPathOf(p) ==
    /\ Finish([op |-> "validate_unix_path", path |-> p],
              Validated(validate_unix_path(p)), << >>, fs)
    /\ UNCHANGED <<base_url, sent, response, threads, lazy>>

CallValidateUnixPath ==
    /\ pc = "idle"
    /\ \E p \in FsPaths : ValidateUnixPathOf(p)

\* every string over PathAlphabet of length at most MaxPathLen
CallValidateUnixPathAny ==
    /\ pc = "idle"
    /\ \E k \in 0..MaxPathLen : \E p \in [1..k -> PathAlphabet] : ValidateUnixPathOf(p)

CallValidateExistingPath ==
    /\ pc = "idle"
    /\ \E p \in FsPaths :
         LET v == validate_existing_path(p, fs) IN
         Finish([op |-> "validate_existing_path", path |-> p, F |-> fs],
                Validated(v.r), v.reads, fs)
    /\ UNCHANGED <<base_url, sent, response, threads, lazy>>

CallValidateWritablePath ==
    /\ pc = "idle"
    /\ \E p \in FsPaths, M \in LaterFs(fs) :
         LET v == validate_writable_path(p, fs, M) IN
         Finish([op |-> "validate_writable_path", path |-> p, F |-> fs, M |-> M],
                Validated(v.r), v.reads, M)
    /\ UNCHANGED <<base_url, sent, response, threads, lazy>>

(***************************************************************************)
(* Field validators: the regexes of models.rs, logger.rs, snapshot.rs and  *)
(* action.rs, each computed on the characters of the string.               *)
(***************************************************************************)
Digits == {"0", "1", "2", "3", "4", "5", "6", "7", "8", "9"}
HexDigits == Digits \cup {"a", "b", "c", "d", "e", "f", "A", "B", "C", "D", "E", "F"}

\* MAC_ADDRESS_REGEX with ':' as the only separator
MAC_ADDRESS_REGEX_colons(s) ==
    /\ Len(s) = 17
    /\ \A i \in 1..17 :
         IF i % 3 = 0 THEN s[i] = ":" ELSE s[i] \in HexDigits

\* ^([0-9A-Fa-f]{2}[:-]){5}([0-9A-Fa-f]{2})$
MAC_ADDRESS_REGEX(s) ==
    /\ Len(s) = 17
    /\ \A i \in 1..17 :
         IF i % 3 = 0 THEN s[i] \in {":", "-"} ELSE s[i] \in HexDigits

\* ^[0-9a-fA-F]{8}-[0-9a-fA-F]{4}-[0-9a-fA-F]{4}-[0-9a-fA-F]{4}-[0-9a-fA-F]{12}$
PARTUUID_REGEX(s) ==
    /\ Len(s) = 36
    /\ \A i \in 1..36 :
         IF i \in {9, 14, 19, 24} THEN s[i] = "-" ELSE s[i] \in HexDigits

StrError == <<"E", "r", "r", "o", "r">>
StrWarning == <<"W", "a", "r", "n", "i", "n", "g">>
StrInfo == <<"I", "n", "f", "o">>
StrDebug == <<"D", "e", "b", "u", "g">>
StrFull == <<"F", "u", "l", "l">>
StrDiff == <<"D", "i", "f", "f">>
StrInstanceStart == <<"I", "n", "s", "t", "a", "n", "c", "e", "S", "t", "a", "r", "t">>
StrInstanceHalt == <<"I", "n", "s", "t", "a", "n", "c", "e", "H", "a", "l", "t">>
StrSendCtrlAltDel == <<"S", "e", "n", "d", "C", "t", "r", "l", "A", "l", "t", "D", "e", "l">>
StrInvalidLevel == <<"I", "n", "v", "a", "l", "i", "d", "L", "e", "v", "e", "l">>
StrInfoLower == <<"i", "n", "f", "o">>
StrInvalid == <<"I", "n", "v", "a", "l", "i", "d">>
StrNotAUuid == <<"n", "o", "t", "-", "a", "-", "u", "u", "i", "d">>
StrUuid == <<"0", "0", "0", "0", "0", "0", "0", "0", "-", "1", "2", "3", "4", "-", "1", "2", "3", "4", "-", "1", "2", "3", "4", "-", "1", "2", "3", "4", "5", "6", "7", "8", "9", "a", "b", "c">>
StrMac == <<"1", "2", ":", "3", "4", ":", "5", "6", ":", "7", "8", ":", "9", "A", ":", "B", "C">>
StrInvalidMac == <<"i", "n", "v", "a", "l", "i", "d", ":", "m", "a", "c", ":", "a", "d", "d", "r", "e", "s", "s">>
StrMacDash == <<"a", "b", "-", "c", "d", "-", "e", "f", ":", "0", "1", "-", "2", "3", "-", "4", "5">>
StrMacShort == <<"1", "2", ":", "3", "4", ":", "5", "6", ":", "7", "8", ":", "9", "A">>
StrRootfs == <<"r", "o", "o", "t", "f", "s">>
StrEth0 == <<"e", "t", "h", "0">>

\* LOG_LEVEL_REGEX compiled case-insensitively
LowerChar(c) ==
    CASE c = "E" -> "e" [] c = "W" -> "w" [] c = "I" -> "i" [] c = "D" -> "d" [] OTHER -> c
LOG_LEVEL_REGEX_ignore_case(s) ==
    \E w \in {StrError, StrWarning, StrInfo, StrDebug} :
        /\ Len(w) = Len(s)
        /\ \A i \in 1..Len(s) : LowerChar(s[i]) = LowerChar(w[i])

\* ^(Error|Warning|Info|Debug)$
LOG_LEVEL_REGEX(s) == s \in {StrError, StrWarning, StrInfo, StrDebug}

\* ^(Full|Diff)$
SNAPSHOT_TYPE_REGEX(s) == s \in {StrFull, StrDiff}

\* ^(InstanceStart|InstanceHalt|SendCtrlAltDel)$
ACTION_TYPE_REGEX(s) == s \in {StrInstanceStart, StrInstanceHalt, StrSendCtrlAltDel}

(***************************************************************************)
(* The derived validators (#[derive(Validate)]).  A field validator's      *)
(* outcome is a record [r, reads]; validate() runs the declared field      *)
(* validators in declaration order and adds every failure to the           *)
(* ValidationErrors under the field's name.                                *)
(***************************************************************************)
NoReads(res) == [r |-> res, reads |-> << >>]

\* #[validate(regex(path = .., message = ..))]
regex_check(matches, message) ==
    NoReads(IF matches THEN Ok ELSE [ok |-> FALSE, code |-> "regex", message |-> message])

\* #[validate(length(min = ..))]
length_check(s, min) ==
    NoReads(IF Len(s) >= min THEN Ok ELSE ValidationError("length"))

\* ValidationErrors::new()
NoErrors == [errors |-> {}, reads |-> << >>]

\* errors_add that keeps only the first failure (fail-fast validation)
errors_add_first(acc, field, v) ==
    [errors |-> IF v.r.ok \/ acc.errors # {} THEN acc.errors
                ELSE {[field |-> field, code |-> v.r.code, message |-> v.r.message]},
     reads |-> acc.reads \o v.reads]

\* ValidationErrors::add(field, error), after the field's validator has run
errors_add(acc, field, v) ==
    [errors |-> IF v.r.ok THEN acc.errors
                ELSE acc.errors \cup
                     {[field |-> field, code |-> v.r.code, message |-> v.r.message]},
     reads |-> acc.reads \o v.reads]

\* models.rs: Drive
Drive_validate(d, F) ==
    LET e1 == errors_add(NoErrors, "partuuid",
                  IF d.partuuid = None THEN NoReads(Ok)
                  ELSE regex_check(PARTUUID_REGEX(d.partuuid[1]),
                                   "Invalid partition UUID format"))
    IN  errors_add(e1, "path_on_host", validate_existing_path(d.path_on_host, F))

\* models.rs: NetworkInterface
NetworkInterface_validate(d) ==
    LET e1 == errors_add(NoErrors, "guest_mac",
                  IF d.guest_mac = None THEN NoReads(Ok)
                  ELSE regex_check(MAC_ADDRESS_REGEX(d.guest_mac[1]),
                                   "Invalid MAC address format"))
        e2 == errors_add(e1, "host_dev_name", NoReads(validate_unix_path(d.host_dev_name)))
    IN  errors_add(e2, "iface_id", length_check(d.iface_id, 1))

\* models.rs: BootSource
BootSource_validate(d, F) ==
    LET e1 == errors_add(NoErrors, "initrd_path",
                  IF d.initrd_path = None THEN NoReads(Ok)
                  ELSE validate_existing_path(d.initrd_path[1], F))
    IN  errors_add(e1, "kernel_image_path", validate_existing_path(d.kernel_image_path, F))

\* models.rs: Vsock
Vsock_validate(d) ==
    errors_add(NoErrors, "uds_path", NoReads(validate_unix_path(d.uds_path)))

\* Logger with level validated as a required field
Logger_validate_level_required(d, F, M) ==
    LET e1 == errors_add(NoErrors, "log_path", validate_writable_path(d.log_path, F, M))
    IN  errors_add(e1, "level",
            IF d.level = None THEN NoReads(ValidationError("required"))
            ELSE regex_check(LOG_LEVEL_REGEX(d.level[1]),
                     "Invalid log level. Must be one of: Error, Warning, Info, Debug"))

\* logger.rs: Logger
Logger_validate(d, F, M) ==
    LET e1 == errors_add(NoErrors, "log_path", validate_writable_path(d.log_path, F, M))
    IN  errors_add(e1, "level",
            IF d.level = None THEN NoReads(Ok)
            ELSE regex_check(LOG_LEVEL_REGEX(d.level[1]),
                     "Invalid log level. Must be one of: Error, Warning, Info, Debug"))

\* metrics.rs: Metrics
Metrics_validate(d, F, M) ==
    errors_add(NoErrors, "metrics_path", validate_writable_path(d.metrics_path, F, M))

\* SnapshotCreateParams with the paths checked by validate_existing_path
SnapshotCreateParams_validate_existing(d, F, M) ==
    LET e1 == errors_add(NoErrors, "snapshot_path",
                  validate_existing_path(d.snapshot_path, F))
        e2 == errors_add(e1, "mem_file_path",
                  validate_existing_path(d.mem_file_path, F))
    IN  errors_add(e2, "snapshot_type",
            IF d.snapshot_type = None THEN NoReads(Ok)
            ELSE regex_check(SNAPSHOT_TYPE_REGEX(d.snapshot_type[1]),
                     "Invalid snapshot type. Must be one of: Full, Diff"))

\* snapshot.rs: SnapshotCreateParams (the second path is checked after the
\* first, so all its reads see the later filesystem)
SnapshotCreateParams_validate(d, F, M) ==
    LET e1 == errors_add(NoErrors, "snapshot_path",
                  validate_writable_path(d.snapshot_path, F, M))
        e2 == errors_add(e1, "mem_file_path",
                  validate_writable_path(d.mem_file_path, M, M))
    IN  errors_add(e2, "snapshot_type",
            IF d.snapshot_type = None THEN NoReads(Ok)
            ELSE regex_check(SNAPSHOT_TYPE_REGEX(d.snapshot_type[1]),
                     "Invalid snapshot type. Must be one of: Full, Diff"))

\* SnapshotLoadParams with a validator on snapshot_path only
SnapshotLoadParams_validate_snapshot_only(d, F) ==
    errors_add(NoErrors, "snapshot_path", validate_existing_path(d.snapshot_path, F))

\* snapshot.rs: SnapshotLoadParams
SnapshotLoadParams_validate(d, F) ==
    LET e1 == errors_add(NoErrors, "snapshot_path",
                  validate_existing_path(d.snapshot_path, F))
    IN  errors_add(e1, "mem_file_path", validate_existing_path(d.mem_file_path, F))

\* Validate::validate() of a descriptor
validate(d, F, M) ==
    CASE d.type = "Drive" -> Drive_validate(d, F)
      [] d.type = "NetworkInterface" -> NetworkInterface_validate(d)
      [] d.type = "BootSource" -> BootSource_validate(d, F)
      [] d.type = "Vsock" -> Vsock_validate(d)
      [] d.type = "Logger" -> Logger_validate(d, F, M)
      [] d.type = "Metrics" -> Metrics_validate(d, F, M)
      [] d.type = "SnapshotCreateParams" -> SnapshotCreateParams_validate(d, F, M)
      [] d.type = "SnapshotLoadParams" -> SnapshotLoadParams_validate(d, F)

(***************************************************************************)
(* Descriptors handed to the operations                                    *)
(***************************************************************************)
Drives ==
    [type : {"Drive"}, drive_id : {<< >>, StrRootfs},
     partuuid : {None, Some(StrUuid), Some(StrNotAUuid)},
     path_on_host : {PathRelative, PathA, PathAB, PathDots},
     is_read_only : {FALSE}, is_root_device : {TRUE},
     cache_type : {None}, io_engine : {None}, rate_limiter : {None}, socket : {None}]

NetworkInterfaces ==
    [type : {"NetworkInterface"}, iface_id : {<< >>, StrEth0},
     host_dev_name : {PathEmpty, PathRelative, PathA, PathParentRef},
     guest_mac : {None, Some(StrMac), Some(StrMacDash), Some(StrMacShort), Some(StrInvalidMac)},
     rx_rate_limiter : {None}, tx_rate_limiter : {None}]

BootSources ==
    [type : {"BootSource"}, kernel_image_path : FsPaths,
     initrd_path : {None, Some(PathA), Some(PathAB)}, boot_args : {None}]

Vsocks ==
    [type : {"Vsock"}, guest_cid : {0, 2, 3, 4},
     uds_path : {PathEmpty, PathRelative, PathA}, vsock_id : {None}]

Loggers ==
    [type : {"Logger"}, log_path : FsPaths,
     level : {None, Some(StrInfo), Some(StrInfoLower), Some(StrInvalidLevel)},
     show_level : {None, Some(TRUE)}, show_log_origin : {None}]

MetricsSet == [type : {"Metrics"}, metrics_path : FsPaths]

SnapshotPaths == {PathRelative, PathA, PathAB, PathDots}

SnapshotCreates ==
    [type : {"SnapshotCreateParams"}, snapshot_path : SnapshotPaths,
     mem_file_path : SnapshotPaths,
     snapshot_type : {None, Some(StrFull), Some(StrInvalid)}, version : {None}]

SnapshotLoads ==
    [type : {"SnapshotLoadParams"}, snapshot_path : SnapshotPaths,
     mem_file_path : SnapshotPaths, enable_diff_snapshots : {None}]

Validatable ==
    Drives \cup NetworkInterfaces \cup BootSources \cup Vsocks \cup Loggers
        \cup MetricsSet \cup SnapshotCreates \cup SnapshotLoads

\* d.validate() called directly
CallValidate ==
    /\ pc = "idle"
    /\ \E d \in Validatable, M \in LaterFs(fs) :
         LET v == validate(d, fs, M) IN
         Finish([op |-> "validate", desc |-> d, F |-> fs, M |-> M],
                [kind |-> "validated_all", errors |-> v.errors], v.reads, M)
    /\ UNCHANGED <<base_url, sent, response, threads, lazy>>

\* the caller, holding the result of a validator call, calls the same
\* validator again on the value it passed the first time; the call record
\* notes that it is a repetition
CallValidatorAgain ==
    /\ pc = "done"
    /\ \/ /\ call.op = "validate_unix_path"
          /\ Finish([op |-> "validate_unix_path", path |-> call.path, again |-> TRUE],
                    Validated(validate_unix_path(call.path)), << >>, fs)
       \/ /\ call.op = "validate_existing_path"
          /\ LET v == validate_existing_path(call.path, fs) IN
             Finish([op |-> "validate_existing_path", path |-> call.path, F |-> fs,
                     again |-> TRUE],
                    Validated(v.r), v.reads, fs)
       \/ /\ call.op = "validate_writable_path"
          /\ \E M \in LaterFs(fs) :
               LET v == validate_writable_path(call.path, fs, M) IN
               Finish([op |-> "validate_writable_path", path |-> call.path,
                       F |-> fs, M |-> M, again |-> TRUE],
                      Validated(v.r), v.reads, M)
       \/ /\ call.op = "validate"
          /\ \E M \in LaterFs(fs) :
               LET v == validate(call.desc, fs, M) IN
               Finish([op |-> "validate", desc |-> call.desc, F |-> fs, M |-> M,
                       again |-> TRUE],
                      [kind |-> "validated_all", errors |-> v.errors], v.reads, M)
    /\ UNCHANGED <<base_url, sent, response, threads, lazy>>

(***************************************************************************)
(* lib.rs: FirecrackerClient                                               *)
(* A URL string is a sequence of tokens: the scheme "http:", "/", a host   *)
(* name, and the characters or words of the path.                          *)
(***************************************************************************)
SchemeHttp == "http:"
BaseGood == <<SchemeHttp, SLASH, SLASH, "localhost">>
BaseTrailing == <<SchemeHttp, SLASH, SLASH, "localhost", SLASH>>
BaseNoScheme == <<"localhost">>

\* the addresses FirecrackerClient::new is given
BaseUrls == {BaseGood, BaseTrailing, BaseNoScheme}

RECURSIVE trim_end_matches(_, _)
trim_end_matches(s, c) ==
    IF s # << >> /\ s[Len(s)] = c THEN trim_end_matches(SubSeq(s, 1, Len(s) - 1), c)
    ELSE s

RECURSIVE trim_start_matches(_, _)
trim_start_matches(s, c) ==
    IF s # << >> /\ s[1] = c THEN trim_start_matches(Tail(s), c)
    ELSE s

\* Url::parse that accepts a string without a scheme
Url_parse_lenient(s) ==
    IF Len(s) >= 4 /\ s[1] = SchemeHttp /\ s[2] = SLASH /\ s[3] = SLASH /\ s[4] # SLASH
    THEN [ok |-> TRUE, scheme |-> s[1], host |-> s[4], path |-> SubSeq(s, 5, Len(s))]
    ELSE [ok |-> TRUE, scheme |-> SchemeHttp, host |-> "", path |-> s]

\* Url::parse: an absolute URL needs a scheme and, for http, a host
Url_parse(s) ==
    IF Len(s) >= 4 /\ s[1] = SchemeHttp /\ s[2] = SLASH /\ s[3] = SLASH /\ s[4] # SLASH
    THEN [ok |-> TRUE, scheme |-> s[1], host |-> s[4], path |-> SubSeq(s, 5, Len(s))]
    ELSE [ok |-> FALSE]

\* FirecrackerClient::url
url(base, path) ==
    Url_parse(trim_end_matches(base, SLASH) \o <<SLASH>> \o trim_start_matches(path, SLASH))

(***************************************************************************)
(* serde: the JSON body of a descriptor.  Fields marked                    *)
(* skip_serializing_if = "Option::is_none" are left out when None.         *)
(***************************************************************************)
SkipIfNone(type) ==
    CASE type = "Drive" -> {"cache_type", "io_engine", "partuuid", "rate_limiter", "socket"}
      [] type = "NetworkInterface" -> {"guest_mac", "rx_rate_limiter", "tx_rate_limiter"}
      [] type = "BootSource" -> {"boot_args", "initrd_path"}
      [] type = "Vsock" -> {"vsock_id"}
      [] type = "Logger" -> {"level", "show_level", "show_log_origin"}
      [] type = "Metrics" -> {}
      [] type = "SnapshotCreateParams" -> {"snapshot_type", "version"}
      [] type = "SnapshotLoadParams" -> {"enable_diff_snapshots"}
      [] type = "Balloon" -> {"deflate_on_oom", "stats_polling_interval_s"}
      [] type = "MachineConfig" ->
             {"cpu_template", "huge_pages", "mem_size_mib", "smt", "track_dirty_pages",
              "vcpu_count"}
      [] type = "CpuConfig" -> {"template"}
      [] type = "VmConfig" -> {"vcpu_count", "mem_size_mib", "ht_enabled", "track_dirty_pages"}
      [] type = "RateLimiter" -> {"bandwidth", "ops"}
      [] OTHER -> {}

\* the fields declared Option<..> in each type
OptionalFields(type) ==
    CASE type = "Drive" -> {"cache_type", "io_engine", "partuuid", "rate_limiter", "socket"}
      [] type = "NetworkInterface" -> {"guest_mac", "rx_rate_limiter", "tx_rate_limiter"}
      [] type = "BootSource" -> {"boot_args", "initrd_path"}
      [] type = "Vsock" -> {"vsock_id"}
      [] type = "Logger" -> {"level", "show_level", "show_log_origin"}
      [] type = "SnapshotCreateParams" -> {"snapshot_type", "version"}
      [] type = "SnapshotLoadParams" -> {"enable_diff_snapshots"}
      [] type = "Balloon" -> {"deflate_on_oom", "stats_polling_interval_s"}
      [] type = "MachineConfig" ->
             {"cpu_template", "huge_pages", "mem_size_mib", "smt", "track_dirty_pages",
              "vcpu_count"}
      [] type = "CpuConfig" -> {"template"}
      [] type = "VmConfig" -> {"vcpu_count", "mem_size_mib", "ht_enabled", "track_dirty_pages"}
      [] type = "EntropyDevice" -> {"rate_limiter"}
      [] type = "RateLimiter" -> {"bandwidth", "ops"}
      [] type = "TokenBucket" -> {"one_time_burst"}
      [] OTHER -> {}

\* the fields whose value is itself a struct
NestedFields(type) ==
    CASE type = "Drive" -> {"rate_limiter"}
      [] type = "NetworkInterface" -> {"rx_rate_limiter", "tx_rate_limiter"}
      [] type = "EntropyDevice" -> {"rate_limiter"}
      [] type = "RateLimiter" -> {"bandwidth", "ops"}
      [] OTHER -> {}

\* JSON values: null, an object (its members), or any other value
JNull == [kind |-> "null", v |-> 0]
JObject(members) == [kind |-> "object", v |-> members]
JValue(x) == [kind |-> "value", v |-> x]

\* Serialize: a field marked skip_serializing_if is left out when None; any
\* other Option field is written as null when None and as its content when
\* Some; a nested struct is written as an object by the same rules.
RECURSIVE to_json(_)
to_json(d) ==
    LET emitted == {f \in DOMAIN d \ {"type"} :
                       ~(f \in SkipIfNone(d.type) /\ d[f] = None)}
        content(f) == IF f \in OptionalFields(d.type) THEN d[f][1] ELSE d[f]
    IN  [f \in emitted |->
            IF f \in OptionalFields(d.type) /\ d[f] = None THEN JNull
            ELSE IF f \in NestedFields(d.type) THEN JObject(to_json(content(f)))
            ELSE JValue(content(f))]

(***************************************************************************)
(* error.rs: FirecrackerError, and the results of the operations           *)
(***************************************************************************)
OkUnit == [kind |-> "Ok"]
OkValue(v) == [kind |-> "Ok", value |-> v]
ErrValidation(errors) == [kind |-> "Validation", errors |-> errors]
ErrUrlParse == [kind |-> "UrlParseError"]
ErrHttpClient == [kind |-> "HttpClient"]
ErrApi(status, message) == [kind |-> "Api", status_code |-> status, message |-> message]

(***************************************************************************)
(* The server side of the exchange                                         *)
(***************************************************************************)
Statuses == {200, 201, 204, 400, 404}

BodyEmpty == ""
BodyFault == "{\"fault_message\":\"Invalid request\"}"
BodyVm == "{\"state\":\"Running\",\"id\":\"vm\"}"
Bodies == {BodyEmpty, BodyFault, BodyVm}

\* what send().await yields: a response, a response whose body then fails
\* to arrive, or a transport failure
Responses ==
    [kind : {"response"}, status : Statuses, body : Bodies, body_arrives : {TRUE}]
        \cup [kind : {"response"}, status : Statuses, body : {BodyEmpty},
              body_arrives : {FALSE}]
        \cup {[kind |-> "transport_failure"]}

\* StatusCode::is_success
is_success(status) == 200 <= status /\ status < 300

\* StatusCode::NO_CONTENT
NO_CONTENT == 204

\* response.text().await?
text(resp) == IF resp.body_arrives THEN [ok |-> TRUE, text |-> resp.body] ELSE [ok |-> FALSE]

\* on_response that reports the failure without the response body
on_response_no_body(resp) ==
    IF resp.kind = "transport_failure" THEN ErrHttpClient
    ELSE IF ~is_success(resp.status) THEN ErrApi(resp.status, BodyEmpty)
    ELSE OkUnit

\* on_response that reports a transport failure as an Api error
on_response_failure_as_api(resp) ==
    IF resp.kind = "transport_failure" THEN ErrApi(0, BodyEmpty)
    ELSE IF ~is_success(resp.status)
         THEN IF text(resp).ok THEN ErrApi(resp.status, text(resp).text) ELSE ErrHttpClient
    ELSE OkUnit

\* the tail of an operation that sends a body, after send().await:
\*   if !response.status().is_success() { return Err(Api {..}) }  Ok(())
on_response(resp) ==
    IF resp.kind = "transport_failure" THEN ErrHttpClient
    ELSE IF ~is_success(resp.status)
         THEN IF text(resp).ok THEN ErrApi(resp.status, text(resp).text) ELSE ErrHttpClient
    ELSE OkUnit

\* lib.rs: the tail of the inherent FirecrackerClient::create_sync_action
on_response_inherent(resp) ==
    IF resp.kind = "transport_failure" THEN ErrHttpClient
    ELSE IF resp.status = NO_CONTENT THEN OkUnit
    ELSE IF text(resp).ok THEN ErrApi(resp.status, text(resp).text) ELSE ErrHttpClient

(***************************************************************************)
(* The operations.  Each runs up to send().await, where the call waits     *)
(* for the server (pc = "awaiting"), or returns before sending.            *)
(***************************************************************************)
Request(method, u, body) == [method |-> method, url |-> u, body |-> body]

\* self.url(path)?  then  self.client.<method>(url).json(body).send()
Dispatch(c, method, path, body, rd, F) ==
    LET u == url(base_url, path) IN
    IF ~u.ok THEN Finish(c, ErrUrlParse, rd, F) /\ sent' = << >>
    ELSE /\ pc' = "awaiting"
         /\ call' = c
         /\ result' = NoResult
         /\ reads' = rd
         /\ fs' = F
         /\ sent' = <<Request(method, u, body)>>

\* ValidatedDispatch without the validate()? line
UnvalidatedDispatch(opname, desc, path, M) ==
    Dispatch([op |-> opname, desc |-> desc, F |-> fs, M |-> M],
             "PUT", path, to_json(desc), << >>, M)

\* ValidatedDispatch with the URL built before the descriptor is validated
ValidatedDispatch_url_first(opname, desc, path, M) ==
    LET v == validate(desc, fs, M)
        c == [op |-> opname, desc |-> desc, F |-> fs, M |-> M]
    IN  IF ~url(base_url, path).ok
        THEN Finish(c, ErrUrlParse, << >>, fs) /\ sent' = << >>
        ELSE IF v.errors # {}
        THEN Finish(c, ErrValidation(v.errors), v.reads, M) /\ sent' = << >>
        ELSE Dispatch(c, "PUT", path, to_json(desc), v.reads, M)

\* desc.validate()?  then the dispatch
ValidatedDispatch(opname, desc, path, M) ==
    LET v == validate(desc, fs, M)
        c == [op |-> opname, desc |-> desc, F |-> fs, M |-> M]
    IN  IF v.errors # {}
        THEN Finish(c, ErrValidation(v.errors), v.reads, M) /\ sent' = << >>
        ELSE Dispatch(c, "PUT", path, to_json(desc), v.reads, M)

put_logger ==
    /\ pc = "idle"
    /\ \E d \in Loggers, M \in LaterFs(fs) : ValidatedDispatch("put_logger", d, <<"logger">>, M)
    /\ UNCHANGED <<base_url, response, threads, lazy>>

put_metrics ==
    /\ pc = "idle"
    /\ \E d \in MetricsSet, M \in LaterFs(fs) :
         ValidatedDispatch("put_metrics", d, <<"metrics">>, M)
    /\ UNCHANGED <<base_url, response, threads, lazy>>

put_vsock ==
    /\ pc = "idle"
    /\ \E d \in Vsocks : ValidatedDispatch("put_vsock", d, <<"vsock">>, fs)
    /\ UNCHANGED <<base_url, response, threads, lazy>>

create_snapshot ==
    /\ pc = "idle"
    /\ \E d \in SnapshotCreates, M \in LaterFs(fs) :
         ValidatedDispatch("create_snapshot", d, <<SLASH, "snapshot", SLASH, "create">>, M)
    /\ UNCHANGED <<base_url, response, threads, lazy>>

load_snapshot ==
    /\ pc = "idle"
    /\ \E d \in SnapshotLoads :
         ValidatedDispatch("load_snapshot", d, <<SLASH, "snapshot", SLASH, "load">>, fs)
    /\ UNCHANGED <<base_url, response, threads, lazy>>

\* the identifiers passed next to the descriptor
Ids == {StrRootfs, StrEth0}

put_drive ==
    /\ pc = "idle"
    /\ \E id \in Ids, d \in Drives :
         Dispatch([op |-> "put_drive", id |-> id, desc |-> d, F |-> fs, M |-> fs],
                  "PUT", <<"drives", SLASH>> \o id, to_json(d), << >>, fs)
    /\ UNCHANGED <<base_url, response, threads, lazy>>

patch_drive ==
    /\ pc = "idle"
    /\ \E id \in Ids, d \in Drives :
         Dispatch([op |-> "patch_drive", id |-> id, desc |-> d, F |-> fs, M |-> fs],
                  "PATCH", <<"drives", SLASH>> \o id, to_json(d), << >>, fs)
    /\ UNCHANGED <<base_url, response, threads, lazy>>

put_network_interface ==
    /\ pc = "idle"
    /\ \E id \in Ids, d \in NetworkInterfaces :
         Dispatch([op |-> "put_network_interface", id |-> id, desc |-> d, F |-> fs, M |-> fs],
                  "PUT", <<"network-interfaces", SLASH>> \o id, to_json(d), << >>, fs)
    /\ UNCHANGED <<base_url, response, threads, lazy>>

patch_network_interface ==
    /\ pc = "idle"
    /\ \E id \in Ids, d \in NetworkInterfaces :
         Dispatch([op |-> "patch_network_interface", id |-> id, desc |-> d, F |-> fs, M |-> fs],
                  "PATCH", <<"network-interfaces", SLASH>> \o id, to_json(d), << >>, fs)
    /\ UNCHANGED <<base_url, response, threads, lazy>>

put_boot_source ==
    /\ pc = "idle"
    /\ \E d \in BootSources :
         Dispatch([op |-> "put_boot_source", desc |-> d, F |-> fs, M |-> fs],
                  "PUT", <<"boot-source">>, to_json(d), << >>, fs)
    /\ UNCHANGED <<base_url, response, threads, lazy>>

InstanceActionInfos ==
    [type : {"InstanceActionInfo"}, action_type : {StrInstanceStart, StrInvalid}]

\* lib.rs: the inherent method, which `client.create_sync_action(..)` calls
create_sync_action ==
    /\ pc = "idle"
    /\ \E a \in InstanceActionInfos :
         Dispatch([op |-> "create_sync_action", desc |-> a, F |-> fs, M |-> fs],
                  "PUT", <<SLASH, "actions">>, to_json(a), << >>, fs)
    /\ UNCHANGED <<base_url, response, threads, lazy>>

\* action.rs: the trait method, ActionOperations::create_sync_action(&client, ..)
ActionOperations_create_sync_action ==
    /\ pc = "idle"
    /\ \E a \in InstanceActionInfos :
         Dispatch([op |-> "ActionOperations::create_sync_action", desc |-> a,
                   F |-> fs, M |-> fs],
                  "PUT", <<"actions">>, to_json(a), << >>, fs)
    /\ UNCHANGED <<base_url, response, threads, lazy>>

(***************************************************************************)
(* The operations that send a descriptor without validators                *)
(***************************************************************************)
Balloons ==
    [type : {"Balloon"}, amount_mib : {64}, deflate_on_oom : {None, Some(TRUE)},
     stats_polling_interval_s : {None}]
BalloonUpdates == [type : {"BalloonUpdate"}, amount_mib : {64}]
BalloonStatsUpdates == [type : {"BalloonStatsUpdate"}, stats_polling_interval_s : {5}]
MachineConfigs ==
    [type : {"MachineConfig"}, cpu_template : {None}, huge_pages : {None},
     mem_size_mib : {None, Some(1024)}, smt : {None}, track_dirty_pages : {None},
     vcpu_count : {Some(2)}]
CpuConfigs == [type : {"CpuConfig"}, template : {None, Some(<<"C", "3">>)}]
TokenBuckets ==
    [type : {"TokenBucket"}, one_time_burst : {None, Some(1)}, refill_time : {100},
     size : {10}]
RateLimiters ==
    [type : {"RateLimiter"}, bandwidth : {None} \cup {Some(b) : b \in TokenBuckets},
     ops : {None}]
EntropyDevices ==
    [type : {"EntropyDevice"}, rate_limiter : {None} \cup {Some(r) : r \in RateLimiters}]
VmConfigs ==
    [type : {"VmConfig"}, vcpu_count : {Some(2)}, mem_size_mib : {None, Some(1024)},
     ht_enabled : {None}, track_dirty_pages : {None}]
MmdsValues == {[type |-> "Value"], [type |-> "Value", latest |-> "meta-data"]}

PlainDispatch(opname, descs, method, path) ==
    /\ pc = "idle"
    /\ \E d \in descs :
         Dispatch([op |-> opname, desc |-> d, F |-> fs, M |-> fs],
                  method, path, to_json(d), << >>, fs)
    /\ UNCHANGED <<base_url, response, threads, lazy>>

put_balloon_config == PlainDispatch("put_balloon_config", Balloons, "PUT", <<"balloon">>)
patch_balloon_config ==
    PlainDispatch("patch_balloon_config", BalloonUpdates, "PATCH", <<"balloon">>)
patch_balloon_stats ==
    PlainDispatch("patch_balloon_stats", BalloonStatsUpdates, "PATCH",
                  <<"balloon", SLASH, "statistics">>)
put_machine_config ==
    PlainDispatch("put_machine_config", MachineConfigs, "PUT", <<"machine-config">>)
patch_machine_config ==
    PlainDispatch("patch_machine_config", MachineConfigs, "PATCH", <<"machine-config">>)
put_cpu_config == PlainDispatch("put_cpu_config", CpuConfigs, "PUT", <<"cpu-config">>)
put_entropy_device == PlainDispatch("put_entropy_device", EntropyDevices, "PUT", <<"entropy">>)
put_vm_config == PlainDispatch("put_vm_config", VmConfigs, "PUT", <<"vm", SLASH, "config">>)
put_mmds == PlainDispatch("put_mmds", MmdsValues, "PUT", <<"mmds">>)
patch_mmds == PlainDispatch("patch_mmds", MmdsValues, "PATCH", <<"mmds">>)

(***************************************************************************)
(* The operations that read                                                *)
(***************************************************************************)
NoBody == [type |-> "none"]

ReadDispatch(opname, path) ==
    /\ pc = "idle"
    /\ Dispatch([op |-> opname, desc |-> NoBody, F |-> fs, M |-> fs],
                "GET", path, NoBody, << >>, fs)
    /\ UNCHANGED <<base_url, response, threads, lazy>>

get_version == ReadDispatch("get_version", <<"version">>)
describe_instance == ReadDispatch("describe_instance", << >>)
get_machine_config == ReadDispatch("get_machine_config", <<"machine-config">>)
get_balloon_config == ReadDispatch("get_balloon_config", <<"balloon">>)
get_balloon_stats == ReadDispatch("get_balloon_stats", <<"balloon", SLASH, "statistics">>)
get_mmds == ReadDispatch("get_mmds", <<"mmds">>)
get_vm_info == ReadDispatch("get_vm_info", <<"vm">>)

ReadOps ==
    {"get_version", "describe_instance", "get_machine_config", "get_balloon_config",
     "get_balloon_stats", "get_mmds", "get_vm_info"}

\* the JSON objects among the bodies, and their keys
JsonObjectKeys(body) ==
    CASE body = BodyFault -> {"fault_message"}
      [] body = BodyVm -> {"state", "id"}
      [] OTHER -> {}
IsJsonObject(body) == body \in {BodyFault, BodyVm}

\* the fields without which serde cannot build the operation's result type
RequiredFields(opname) ==
    CASE opname = "get_version" -> {"firecracker_version"}
      [] opname = "describe_instance" -> {"app_name", "id", "state", "vmm_version"}
      [] opname = "get_machine_config" -> {}
      [] opname = "get_balloon_config" -> {"amount_mib"}
      [] opname = "get_balloon_stats" ->
             {"actual_mib", "actual_pages", "target_mib", "target_pages"}
      [] opname = "get_mmds" -> {}
      [] opname = "get_vm_info" -> {"state", "id"}

\* response.json::<T>().await
json_decode(opname, resp) ==
    IF resp.body_arrives /\ IsJsonObject(resp.body)
       /\ RequiredFields(opname) \subseteq JsonObjectKeys(resp.body)
    THEN [ok |-> TRUE, value |-> resp.body]
    ELSE [ok |-> FALSE]

\* on_response_read that reports an undecodable body as Serialization
on_response_read_serialization(opname, resp) ==
    IF resp.kind = "transport_failure" THEN ErrHttpClient
    ELSE IF ~is_success(resp.status)
         THEN IF text(resp).ok THEN ErrApi(resp.status, text(resp).text) ELSE ErrHttpClient
    ELSE IF json_decode(opname, resp).ok THEN OkValue(json_decode(opname, resp).value)
    ELSE [kind |-> "Serialization"]

\* the tail of a read operation, after send().await
on_response_read(opname, resp) ==
    IF resp.kind = "transport_failure" THEN ErrHttpClient
    ELSE IF ~is_success(resp.status)
         THEN IF text(resp).ok THEN ErrApi(resp.status, text(resp).text) ELSE ErrHttpClient
    ELSE IF json_decode(opname, resp).ok THEN OkValue(json_decode(opname, resp).value)
    ELSE ErrHttpClient

\* Receive that sends the request once more after a failure
Receive_retry ==
    /\ pc = "awaiting"
    /\ \E resp \in Responses :
         IF Len(sent) < 2 /\ (resp.kind = "transport_failure" \/ ~is_success(resp.status))
         THEN /\ sent' = Append(sent, sent[1])
              /\ pc' = "awaiting"
              /\ UNCHANGED <<result, response>>
         ELSE /\ result' = IF call.op \in ReadOps THEN on_response_read(call.op, resp)
                           ELSE IF call.op = "create_sync_action"
                                THEN on_response_inherent(resp)
                           ELSE on_response(resp)
              /\ response' = resp
              /\ pc' = "done"
              /\ sent' = sent
    /\ UNCHANGED <<fs, base_url, call, reads, threads, lazy>>

\* send().await completes and the operation runs to its end
Receive ==
    /\ pc = "awaiting"
    /\ \E resp \in Responses :
         /\ result' = IF call.op \in ReadOps THEN on_response_read(call.op, resp)
                      ELSE IF call.op = "create_sync_action" THEN on_response_inherent(resp)
                      ELSE on_response(resp)
         /\ response' = resp
    /\ pc' = "done"
    /\ UNCHANGED <<fs, base_url, call, sent, reads, threads, lazy>>

(***************************************************************************)
(* validate() called from several threads                                  *)
(***************************************************************************)
Threads == {1, 2}

\* the lazy_static regexes the derived validators dereference
Regexes == {"MAC_ADDRESS_REGEX", "PARTUUID_REGEX", "LOG_LEVEL_REGEX", "SNAPSHOT_TYPE_REGEX"}

ThreadIdle == [pc |-> "idle"]

\* std::sync::Once behind each lazy_static: not yet run, running in one
\* thread (owner), or complete (owner is the thread that ran it)
LazyUninit == [state |-> "uninit", owner |-> 0]

\* the validated fields of each descriptor type, in the order validate()
\* visits them
FieldOrder(type) ==
    CASE type = "Drive" -> <<"partuuid", "path_on_host">>
      [] type = "NetworkInterface" -> <<"guest_mac", "host_dev_name", "iface_id">>
      [] type = "BootSource" -> <<"initrd_path", "kernel_image_path">>
      [] type = "Vsock" -> <<"uds_path">>
      [] type = "Logger" -> <<"log_path", "level">>
      [] type = "Metrics" -> <<"metrics_path">>
      [] type = "SnapshotCreateParams" -> <<"snapshot_path", "mem_file_path", "snapshot_type">>
      [] type = "SnapshotLoadParams" -> <<"snapshot_path", "mem_file_path">>

\* the regex named by the field's #[validate(regex(path = ..))], if any
FieldRegex(type, field) ==
    CASE type = "Drive" /\ field = "partuuid" -> Some("PARTUUID_REGEX")
      [] type = "NetworkInterface" /\ field = "guest_mac" -> Some("MAC_ADDRESS_REGEX")
      [] type = "Logger" /\ field = "level" -> Some("LOG_LEVEL_REGEX")
      [] type = "SnapshotCreateParams" /\ field = "snapshot_type" -> Some("SNAPSHOT_TYPE_REGEX")
      [] OTHER -> None

\* the regex the thread is about to dereference: the current field has a
\* regex validator and holds Some(value)
RegexNeeded(th) ==
    IF th.pc # "running" \/ th.i > Len(FieldOrder(th.desc.type)) THEN None
    ELSE LET field == FieldOrder(th.desc.type)[th.i]
             re == FieldRegex(th.desc.type, field) IN
         IF re # None /\ th.desc[field] # None THEN re ELSE None

\* what the validator of one field adds to the thread's own ValidationErrors
field_errors(d, field, F) == {e \in validate(d, F, F).errors : e.field = field}

\* the descriptors the threads validate
ConcDescriptors ==
    {d \in Drives : d.drive_id = StrRootfs /\ d.path_on_host = PathA}
    \cup {d \in NetworkInterfaces :
             /\ d.iface_id = StrEth0
             /\ d.host_dev_name = PathA
             /\ d.guest_mac \in {Some(StrMac), Some(StrInvalidMac)}}
    \cup {d \in Loggers :
             /\ d.log_path = PathAB
             /\ d.level \in {Some(StrInfo), Some(StrInvalidLevel)}
             /\ d.show_level = None}
    \cup {d \in SnapshotCreates :
             /\ d.snapshot_path = PathA
             /\ d.mem_file_path = PathAB
             /\ d.snapshot_type # None}

\* the filesystems the threads run on (unchanged while they run)
ConcFilesystems ==
    {[n \in FsNodes |-> IF n = Root THEN RootEntry ELSE IF n = <<NameA>> THEN e ELSE Absent] :
        e \in {File(420), Dir(365)}}

\* a thread calls d.validate()
ThreadCall(t) ==
    /\ threads[t].pc = "idle"
    /\ \E d \in ConcDescriptors :
         threads' = [threads EXCEPT
                        ![t] = [pc |-> "running", desc |-> d, i |-> 1, errors |-> {}]]
    /\ UNCHANGED <<fs, base_url, pc, call, result, sent, response, reads, lazy>>

\* first dereference of a lazy_static: the thread starts Regex::new under Once
LazyInitBegin(t) ==
    /\ RegexNeeded(threads[t]) # None
    /\ lazy[RegexNeeded(threads[t])[1]].state = "uninit"
    /\ lazy' = [lazy EXCEPT ![RegexNeeded(threads[t])[1]] = [state |-> "running", owner |-> t]]
    /\ UNCHANGED <<fs, base_url, pc, call, result, sent, response, reads, threads>>

\* Regex::new returns and Once is marked complete
LazyInitEnd(t) ==
    /\ \E r \in Regexes :
         /\ lazy[r] = [state |-> "running", owner |-> t]
         /\ lazy' = [lazy EXCEPT ![r] = [state |-> "complete", owner |-> t]]
    /\ UNCHANGED <<fs, base_url, pc, call, result, sent, response, reads, threads>>

\* a thread that reads the regex without waiting for its initialisation:
\* what it reads is indeterminate, so the field's check has either outcome
ThreadField_unsynchronised(t) ==
    /\ threads[t].pc = "running"
    /\ threads[t].i <= Len(FieldOrder(threads[t].desc.type))
    /\ LET th == threads[t]
           field == FieldOrder(th.desc.type)[th.i]
           re == RegexNeeded(th) IN
       \E found \in IF re = None \/ lazy[re[1]].state = "complete"
                     THEN {field_errors(th.desc, field, fs)}
                     ELSE {{}, {[field |-> field, code |-> "regex", message |-> ""]}} :
           threads' = [threads EXCEPT ![t].errors = th.errors \cup found,
                                      ![t].i = th.i + 1]
    /\ UNCHANGED <<fs, base_url, pc, call, result, sent, response, reads, lazy>>

\* the validator of the current field runs; a regex validator waits until
\* the regex is initialised (Once blocks the other threads meanwhile)
ThreadField(t) ==
    /\ threads[t].pc = "running"
    /\ threads[t].i <= Len(FieldOrder(threads[t].desc.type))
    /\ LET th == threads[t]
           field == FieldOrder(th.desc.type)[th.i]
           re == RegexNeeded(th) IN
       /\ re # None => lazy[re[1]].state = "complete"
       /\ threads' = [threads EXCEPT
                          ![t].errors = th.errors \cup field_errors(th.desc, field, fs),
                          ![t].i = th.i + 1]
    /\ UNCHANGED <<fs, base_url, pc, call, result, sent, response, reads, lazy>>

\* validate() returns the thread's ValidationErrors
ThreadFinish(t) ==
    /\ threads[t].pc = "running"
    /\ threads[t].i > Len(FieldOrder(threads[t].desc.type))
    /\ threads' = [threads EXCEPT
                       ![t] = [pc |-> "done", desc |-> threads[t].desc,
                               errors |-> threads[t].errors]]
    /\ UNCHANGED <<fs, base_url, pc, call, result, sent, response, reads, lazy>>

\* the thread drops the result and is ready for its next call
ThreadReturn(t) ==
    /\ threads[t].pc = "done"
    /\ threads' = [threads EXCEPT ![t] = ThreadIdle]
    /\ UNCHANGED <<fs, base_url, pc, call, result, sent, response, reads, lazy>>

(***************************************************************************)
(* Specifications                                                          *)
(***************************************************************************)
\* FirecrackerClient::new(base_url): any address is accepted
Init ==
    /\ fs = [n \in FsNodes |-> IF n = Root THEN RootEntry ELSE Absent]
    /\ base_url \in BaseUrls
    /\ pc = "idle"
    /\ call = NoCall
    /\ result = NoResult
    /\ sent = << >>
    /\ response = NoResponse
    /\ reads = << >>
    /\ threads = [t \in Threads |-> ThreadIdle]
    /\ lazy = [r \in Regexes |-> LazyUninit]

Next ==
    \/ FsCreate \/ FsRemove \/ FsChmod
    \/ CallValidateUnixPath \/ CallValidateExistingPath \/ CallValidateWritablePath
    \/ CallValidate
    \/ put_logger \/ put_metrics \/ put_vsock \/ create_snapshot \/ load_snapshot
    \/ put_drive \/ patch_drive \/ put_network_interface \/ patch_network_interface
    \/ put_boot_source
    \/ create_sync_action \/ ActionOperations_create_sync_action
    \/ put_balloon_config \/ patch_balloon_config \/ patch_balloon_stats
    \/ put_machine_config \/ patch_machine_config \/ put_cpu_config
    \/ put_entropy_device \/ put_vm_config \/ put_mmds \/ patch_mmds
    \/ get_version \/ describe_instance \/ get_machine_config \/ get_balloon_config
    \/ get_balloon_stats \/ get_mmds \/ get_vm_info
    \/ Receive
    \/ Return

Spec == Init /\ [][Next]_vars

\* validate_unix_path applied to every string over PathAlphabet of length
\* at most MaxPathLen
InitPath == Init /\ base_url = BaseGood

NextPath == CallValidateUnixPathAny

SpecPath == InitPath /\ [][NextPath]_vars

\* the validators alone, each call possibly repeated by its caller
NextTwice ==
    \/ FsCreate \/ FsRemove \/ FsChmod
    \/ CallValidateUnixPath \/ CallValidateExistingPath \/ CallValidateWritablePath
    \/ CallValidate
    \/ CallValidatorAgain
    \/ Return

SpecTwice == Init /\ [][NextTwice]_vars

\* validate() called from the threads in any interleaving, on a filesystem
\* that does not change meanwhile
InitConc ==
    /\ fs \in ConcFilesystems
    /\ base_url = BaseGood
    /\ pc = "idle"
    /\ call = NoCall
    /\ result = NoResult
    /\ sent = << >>
    /\ response = NoResponse
    /\ reads = << >>
    /\ threads = [t \in Threads |-> ThreadIdle]
    /\ lazy = [r \in Regexes |-> LazyUninit]

NextConc ==
    \E t \in Threads :
        \/ ThreadCall(t)
        \/ LazyInitBegin(t)
        \/ LazyInitEnd(t)
        \/ ThreadField(t)
        \/ ThreadFinish(t)
        \/ ThreadReturn(t)

SpecConc == InitConc /\ [][NextConc]_vars

(***************************************************************************)
(* Claims C1 - C10                                                         *)
(***************************************************************************)
AfterCall(opname) == pc = "done" /\ call.op = opname

\* a segment of the path is exactly ".."
HasParentSegment(p) == \E i \in 1..Len(Segments(p)) : Segments(p)[i] = ParentDir

\* the UnixPathString invariants of the data model
IsUnixPathString(p) ==
    /\ p # << >>
    /\ starts_with(p, SLASH)
    /\ ~contains_char(p, NUL)
    /\ ~HasParentSegment(p)

\* C1 (as claimed): validate_unix_path classifies every string by the first
\* rule that applies: empty -> EmptyPath; not starting with '/' ->
\* NotAbsolute; containing NUL or a ".." component -> IllegalSegment; every
\* other string succeeds.
C1_FirstRuleClassification ==
    AfterCall("validate_unix_path") =>
        result.r = (IF call.path = << >> THEN EmptyPath
                    ELSE IF ~starts_with(call.path, SLASH) THEN NotAbsolute
                    ELSE IF contains_char(call.path, NUL) \/ HasParentSegment(call.path)
                         THEN IllegalSegment
                    ELSE Ok)

\* C2 (as claimed): validate_unix_path succeeds if and only if the string
\* satisfies the UnixPathString invariants; two dots inside a longer segment
\* name are accepted.
C2_AcceptsExactlyUnixPathStrings ==
    AfterCall("validate_unix_path") => (result.r.ok <=> IsUnixPathString(call.path))

\* C3: validate_existing_path(p) succeeds if and only if p passes
\* validate_unix_path and an entry exists at p at the time of the call; when
\* p fails validate_unix_path that error is returned and the filesystem is
\* not read.
C3_ExistingPathIff ==
    AfterCall("validate_existing_path") =>
        /\ result.r.ok <=>
               (validate_unix_path(call.path).ok /\ Stat(call.path, call.F) # Absent)
        /\ ~validate_unix_path(call.path).ok =>
               (result.r = validate_unix_path(call.path) /\ reads = << >>)
        /\ (validate_unix_path(call.path).ok /\ Stat(call.path, call.F) = Absent) =>
               result.r = PathNotFound

C3_Witness ==
    /\ AfterCall("validate_existing_path")
    /\ call.path = PathAB
    /\ result.r.ok
    /\ reads = <<ReadExists(PathAB)>>

\* the condition of C4 on a path and a filesystem
WritableCondition(p, F) ==
    \/ Stat(p, F) # Absent /\ owner_writable(Stat(p, F).mode)
    \/ /\ Stat(p, F) = Absent
       /\ parent(p) # None
       /\ Stat(parent(p)[1], F) # Absent
       /\ owner_writable(Stat(parent(p)[1], F).mode)

\* C4 (as claimed): for a UnixPathString p and a filesystem that does not
\* change during the call, validate_writable_path(p) succeeds if and only if
\* p exists with the owner-write bit set, or p does not exist and its parent
\* exists with the owner-write bit set.
C4_WritablePathIff ==
    (AfterCall("validate_writable_path") /\ call.M = call.F /\ IsUnixPathString(call.path)) =>
        (result.r.ok <=> WritableCondition(call.path, call.F))

\* the outcome of the validator declared on field f of descriptor d
FieldOutcome(d, f, F, M) ==
    CASE d.type = "Drive" /\ f = "partuuid" ->
             d.partuuid = None \/ PARTUUID_REGEX(d.partuuid[1])
      [] d.type = "Drive" /\ f = "path_on_host" -> validate_existing_path(d.path_on_host, F).r.ok
      [] d.type = "NetworkInterface" /\ f = "guest_mac" ->
             d.guest_mac = None \/ MAC_ADDRESS_REGEX(d.guest_mac[1])
      [] d.type = "NetworkInterface" /\ f = "host_dev_name" ->
             validate_unix_path(d.host_dev_name).ok
      [] d.type = "NetworkInterface" /\ f = "iface_id" -> Len(d.iface_id) >= 1
      [] d.type = "BootSource" /\ f = "initrd_path" ->
             d.initrd_path = None \/ validate_existing_path(d.initrd_path[1], F).r.ok
      [] d.type = "BootSource" /\ f = "kernel_image_path" ->
             validate_existing_path(d.kernel_image_path, F).r.ok
      [] d.type = "Vsock" /\ f = "uds_path" -> validate_unix_path(d.uds_path).ok
      [] d.type = "Logger" /\ f = "log_path" -> validate_writable_path(d.log_path, F, M).r.ok
      [] d.type = "Logger" /\ f = "level" -> d.level = None \/ LOG_LEVEL_REGEX(d.level[1])
      [] d.type = "Metrics" /\ f = "metrics_path" ->
             validate_writable_path(d.metrics_path, F, M).r.ok
      [] d.type = "SnapshotCreateParams" /\ f = "snapshot_path" ->
             validate_writable_path(d.snapshot_path, F, M).r.ok
      [] d.type = "SnapshotCreateParams" /\ f = "mem_file_path" ->
             validate_writable_path(d.mem_file_path, M, M).r.ok
      [] d.type = "SnapshotCreateParams" /\ f = "snapshot_type" ->
             d.snapshot_type = None \/ SNAPSHOT_TYPE_REGEX(d.snapshot_type[1])
      [] d.type = "SnapshotLoadParams" /\ f = "snapshot_path" ->
             validate_existing_path(d.snapshot_path, F).r.ok
      [] d.type = "SnapshotLoadParams" /\ f = "mem_file_path" ->
             validate_existing_path(d.mem_file_path, F).r.ok

\* the fields of each descriptor type that declare a validator
ValidatedFields(type) ==
    CASE type = "Drive" -> {"partuuid", "path_on_host"}
      [] type = "NetworkInterface" -> {"guest_mac", "host_dev_name", "iface_id"}
      [] type = "BootSource" -> {"initrd_path", "kernel_image_path"}
      [] type = "Vsock" -> {"uds_path"}
      [] type = "Logger" -> {"log_path", "level"}
      [] type = "Metrics" -> {"metrics_path"}
      [] type = "SnapshotCreateParams" -> {"snapshot_path", "mem_file_path", "snapshot_type"}
      [] type = "SnapshotLoadParams" -> {"snapshot_path", "mem_file_path"}

InvalidFields(d, F, M) == {f \in ValidatedFields(d.type) : ~FieldOutcome(d, f, F, M)}

\* C5: validate() reports every failing field, not only the first: the
\* aggregate has exactly one entry per field whose declared validator fails,
\* keyed by the field's name; a Drive with partuuid "not-a-uuid" and a
\* path_on_host that does not exist yields exactly partuuid and path_on_host.
C5_AllFailuresReported ==
    AfterCall("validate") =>
        /\ {e.field : e \in result.errors} = InvalidFields(call.desc, call.F, call.M)
        /\ Cardinality(result.errors) = Cardinality(InvalidFields(call.desc, call.F, call.M))
        /\ (/\ call.desc.type = "Drive"
            /\ call.desc.partuuid = Some(StrNotAUuid)
            /\ Stat(call.desc.path_on_host, call.F) = Absent) =>
               {e.field : e \in result.errors} = {"partuuid", "path_on_host"}

C5_Witness ==
    /\ AfterCall("validate")
    /\ call.desc.type = "Drive"
    /\ call.desc.partuuid = Some(StrNotAUuid)
    /\ call.desc.path_on_host = PathAB
    /\ Stat(PathAB, call.F) = Absent
    /\ Cardinality(result.errors) = 2

ValidatingOps == {"put_logger", "put_metrics", "put_vsock", "create_snapshot", "load_snapshot"}

UnvalidatedDescriptorOps ==
    {"put_drive", "patch_drive", "put_network_interface", "patch_network_interface",
     "put_boot_source"}

\* C7 (as claimed): put_drive, patch_drive, put_network_interface,
\* patch_network_interface and put_boot_source never send a descriptor that
\* fails its declared field validators: they return a validation failure
\* without sending a request.
C7_NoInvalidDescriptorSent ==
    (call.op \in UnvalidatedDescriptorOps
        /\ validate(call.desc, call.F, call.M).errors # {}) => sent = << >>

\* C8: every operation maps a received response with a non-2xx status to
\* Api carrying exactly the response's status code and its body text.
C8_NonSuccessIsApi ==
    (pc = "done" /\ response.kind = "response" /\ response.body_arrives
        /\ ~(200 <= response.status /\ response.status < 300)) =>
        result = [kind |-> "Api", status_code |-> response.status, message |-> response.body]

C8_Witness ==
    /\ AfterCall("create_sync_action")
    /\ response.kind = "response"
    /\ response.status = 400
    /\ response.body = BodyFault
    /\ result = [kind |-> "Api", status_code |-> 400, message |-> BodyFault]

\* C9 (as claimed): every operation treats any 2xx status as success and
\* only non-2xx statuses as an Api failure; create_sync_action returns Ok for
\* 200, 201 and 204 alike.
C9_Any2xxIsSuccess ==
    (pc = "done" /\ response.kind = "response") =>
        /\ result.kind = "Api" => ~(200 <= response.status /\ response.status < 300)
        /\ (call.op \in {"create_sync_action", "ActionOperations::create_sync_action"}
               /\ response.status \in {200, 201, 204}) => result.kind = "Ok"

\* C10 (as claimed): a Vsock whose guest_cid is below 3 fails validation,
\* and put_vsock never sends a Vsock with guest_cid < 3.
C10_VsockCidRange ==
    /\ (AfterCall("validate") /\ call.desc.type = "Vsock" /\ call.desc.guest_cid < 3) =>
           result.errors # {}
    /\ (call.op = "put_vsock" /\ call.desc.guest_cid < 3) => sent = << >>

(***************************************************************************)
(* Claims C11 - C20                                                        *)
(***************************************************************************)
\* C11 (as claimed): an InstanceActionInfo whose action_type is not exactly
\* one of InstanceStart, InstanceHalt, SendCtrlAltDel is reported as a
\* validation failure and create_sync_action does not send it.
C11_ActionTypeChecked ==
    (call.op \in {"create_sync_action", "ActionOperations::create_sync_action"}
        /\ ~ACTION_TYPE_REGEX(call.desc.action_type)) =>
        /\ sent = << >>
        /\ pc = "done" => result.kind = "Validation"

\* a JSON object has a null member, at any depth
RECURSIVE HasNull(_)
HasNull(obj) ==
    \E f \in DOMAIN obj :
        obj[f].kind = "null" \/ (obj[f].kind = "object" /\ HasNull(obj[f].v))

\* C12 (as claimed): in the JSON body of every request an absent optional
\* field is omitted and never written as null, nested values
\* (RateLimiter.bandwidth/ops, TokenBucket.one_time_burst) and
\* EntropyDevice.rate_limiter included.
C12_AbsentOptionalOmitted ==
    \A i \in 1..Len(sent) : sent[i].method # "GET" => ~HasNull(sent[i].body)

\* the optional fields that declare a validator
OptionalValidatedFields(type) ==
    CASE type = "Logger" -> {"level"}
      [] type = "SnapshotCreateParams" -> {"snapshot_type"}
      [] type = "Drive" -> {"partuuid"}
      [] type = "NetworkInterface" -> {"guest_mac"}
      [] type = "BootSource" -> {"initrd_path"}
      [] OTHER -> {}

\* values of an optional validated field that pass its validator
ValidOptionalValues(type, f, F) ==
    CASE type = "Logger" -> {StrInfo, StrError}
      [] type = "SnapshotCreateParams" -> {StrFull, StrDiff}
      [] type = "Drive" -> {StrUuid}
      [] type = "NetworkInterface" -> {StrMac, StrMacDash}
      [] type = "BootSource" -> {p \in FsPaths : validate_existing_path(p, F).r.ok}

\* C13: validators run only on optional fields that are present: a
\* descriptor whose optional validated field is absent gets no error entry
\* for that field and exactly the validation result of the same descriptor
\* with a valid value in that field.
C13_AbsentOptionalNotValidated ==
    AfterCall("validate") =>
        \A f \in OptionalValidatedFields(call.desc.type) :
            call.desc[f] = None =>
                /\ \A e \in result.errors : e.field # f
                /\ \A v \in ValidOptionalValues(call.desc.type, f, call.F) :
                       validate([call.desc EXCEPT ![f] = Some(v)], call.F, call.M).errors
                           = result.errors

C13_Witness ==
    /\ AfterCall("validate")
    /\ call.desc.type = "Logger"
    /\ call.desc.level = None
    /\ call.desc.log_path = PathA
    /\ result.errors = {}

\* C14: Logger validation succeeds if and only if log_path passes
\* validate_writable_path and level is absent or exactly one of Error,
\* Warning, Info, Debug; show_level and show_log_origin never affect the
\* result.
C14_LoggerIff ==
    (AfterCall("validate") /\ call.desc.type = "Logger") =>
        /\ (result.errors = {}) <=>
               /\ validate_writable_path(call.desc.log_path, call.F, call.M).r.ok
               /\ \/ call.desc.level = None
                  \/ call.desc.level[1] \in {StrError, StrWarning, StrInfo, StrDebug}
        /\ \A sl \in {None, Some(TRUE), Some(FALSE)}, so \in {None, Some(TRUE), Some(FALSE)} :
               validate([call.desc EXCEPT !.show_level = sl, !.show_log_origin = so],
                        call.F, call.M).errors = result.errors

C14_Witness ==
    /\ AfterCall("validate")
    /\ call.desc.type = "Logger"
    /\ call.desc.level = Some(StrInfoLower)
    /\ validate_writable_path(call.desc.log_path, call.F, call.M).r.ok
    /\ {e.field : e \in result.errors} = {"level"}

\* C15: SnapshotCreateParams validation succeeds if and only if
\* snapshot_path and mem_file_path each pass validate_writable_path and
\* snapshot_type is absent or exactly Full or Diff; neither target file has
\* to exist beforehand.
C15_SnapshotCreateIff ==
    (AfterCall("validate") /\ call.desc.type = "SnapshotCreateParams") =>
        (result.errors = {}) <=>
            /\ validate_writable_path(call.desc.snapshot_path, call.F, call.M).r.ok
            /\ validate_writable_path(call.desc.mem_file_path, call.M, call.M).r.ok
            /\ \/ call.desc.snapshot_type = None
               \/ call.desc.snapshot_type[1] \in {StrFull, StrDiff}

C15_Witness ==
    /\ AfterCall("validate")
    /\ call.desc.type = "SnapshotCreateParams"
    /\ call.desc.snapshot_type = Some(StrFull)
    /\ Stat(call.desc.snapshot_path, call.F) = Absent
    /\ Stat(call.desc.mem_file_path, call.F) = Absent
    /\ call.M = call.F
    /\ result.errors = {}

IsHexOctet(s) == Len(s) = 2 /\ s[1] \in HexDigits /\ s[2] \in HexDigits
IsMacAddress(s) ==
    /\ Len(s) = 17
    /\ \A k \in 0..5 : IsHexOctet(SubSeq(s, 3 * k + 1, 3 * k + 2))
    /\ \A k \in 1..5 : s[3 * k] \in {":", "-"}

\* C17: NetworkInterface validation succeeds if and only if iface_id is
\* non-empty, host_dev_name passes validate_unix_path, and guest_mac is
\* absent or is six two-digit hexadecimal octets separated by ':' or '-';
\* the rate limiters never affect the result.
C17_NetworkInterfaceIff ==
    (AfterCall("validate") /\ call.desc.type = "NetworkInterface") =>
        /\ (result.errors = {}) <=>
               /\ Len(call.desc.iface_id) >= 1
               /\ validate_unix_path(call.desc.host_dev_name).ok
               /\ call.desc.guest_mac = None \/ IsMacAddress(call.desc.guest_mac[1])
        /\ \A rx \in {None} \cup {Some(r) : r \in RateLimiters},
              tx \in {None} \cup {Some(r) : r \in RateLimiters} :
               validate([call.desc EXCEPT !.rx_rate_limiter = rx, !.tx_rate_limiter = tx],
                        call.F, call.M).errors = result.errors

C17_Witness ==
    /\ AfterCall("validate")
    /\ call.desc.type = "NetworkInterface"
    /\ call.desc.iface_id = StrEth0
    /\ call.desc.host_dev_name = PathA
    /\ call.desc.guest_mac = Some(StrMacDash)
    /\ result.errors = {}

\* C18 (as claimed): Drive validation succeeds if and only if drive_id is
\* non-empty, path_on_host passes validate_existing_path, and partuuid is
\* absent or in 8-4-4-4-12 hexadecimal form; a Drive with an empty drive_id
\* is rejected even when its path and partuuid are valid.
C18_DriveIff ==
    (AfterCall("validate") /\ call.desc.type = "Drive") =>
        (result.errors = {}) <=>
            /\ Len(call.desc.drive_id) >= 1
            /\ validate_existing_path(call.desc.path_on_host, call.F).r.ok
            /\ call.desc.partuuid = None \/ PARTUUID_REGEX(call.desc.partuuid[1])

\* C19: for a path that passes validate_unix_path, on a filesystem that
\* stays as it is during the call, validate_writable_path reports
\* not-writable exactly when the path exists without the owner-write bit,
\* parent-missing exactly when neither the path nor its parent exists, and
\* parent-not-writable exactly when the path does not exist and its parent
\* exists without the owner-write bit, and the three errors differ; a Logger
\* whose log_path names a missing file in a read-only directory fails with
\* parent-not-writable and has no log_path error when the directory is
\* writable.
C19_ThreeWritableFailures ==
    /\ NotWritable # ParentMissing
    /\ NotWritable # ParentNotWritable
    /\ ParentMissing # ParentNotWritable
    /\ (/\ AfterCall("validate_writable_path")
        /\ call.M = call.F
        /\ validate_unix_path(call.path).ok) =>
           /\ result.r = NotWritable <=>
                  /\ Stat(call.path, call.F) # Absent
                  /\ ~owner_writable(Stat(call.path, call.F).mode)
           /\ result.r = ParentMissing <=>
                  /\ Stat(call.path, call.F) = Absent
                  /\ parent(call.path) # None
                  /\ Stat(parent(call.path)[1], call.F) = Absent
           /\ result.r = ParentNotWritable <=>
                  /\ Stat(call.path, call.F) = Absent
                  /\ parent(call.path) # None
                  /\ Stat(parent(call.path)[1], call.F) # Absent
                  /\ ~owner_writable(Stat(parent(call.path)[1], call.F).mode)
    /\ (/\ AfterCall("validate")
        /\ call.desc.type = "Logger"
        /\ call.M = call.F
        /\ call.desc.log_path = PathAB
        /\ Stat(PathAB, call.F) = Absent
        /\ Stat(PathA, call.F).kind = "dir") =>
           IF owner_writable(Stat(PathA, call.F).mode)
           THEN \A e \in result.errors : e.field # "log_path"
           ELSE [field |-> "log_path", code |-> "invalid_path",
                 message |-> "Parent directory is not writable"] \in result.errors

C19_Witness ==
    /\ AfterCall("validate")
    /\ call.desc.type = "Logger"
    /\ call.desc.log_path = PathAB
    /\ call.M = call.F
    /\ Stat(PathA, call.F) = Dir(365)
    /\ Stat(PathAB, call.F) = Absent
    /\ \E e \in result.errors :
           e.field = "log_path" /\ e.message = "Parent directory is not writable"

\* C20 (as claimed): every string that contains a NUL byte or a ".."
\* segment, with no other condition on the string, fails validate_unix_path
\* with the illegal-segment error.
C20_IllegalSegmentUnconditional ==
    (AfterCall("validate_unix_path")
        /\ (contains_char(call.path, NUL) \/ HasParentSegment(call.path))) =>
        result.r = IllegalSegment

\* C20 (amended): every string that starts with '/' and contains a NUL byte
\* or a ".." segment fails validate_unix_path with the illegal-segment
\* error; a string that does not start with '/' fails with not-absolute
\* whatever else it contains.
C20_IllegalSegmentWhenAbsolute ==
    (AfterCall("validate_unix_path")
        /\ (contains_char(call.path, NUL) \/ HasParentSegment(call.path))) =>
        result.r = (IF starts_with(call.path, SLASH) THEN IllegalSegment ELSE NotAbsolute)

C20_Witness ==
    /\ AfterCall("validate_unix_path")
    /\ call.path = <<SLASH, "a", NUL>>
    /\ result.r = IllegalSegment

(***************************************************************************)
(* Claims C21 - C30                                                        *)
(***************************************************************************)
\* the call in progress is a client operation (not a validator called alone)
ClientCall ==
    call.op \notin {"none", "validate_unix_path", "validate_existing_path",
                    "validate_writable_path", "validate"}

\* C21: each call of a client operation sends at most one HTTP request:
\* once the request is sent nothing more is sent before the call returns,
\* whether the exchange fails in transport, is answered with a non-2xx
\* status or succeeds, and the failure is what the caller gets.
C21_AtMostOneRequest ==
    /\ [](Len(sent) <= 1)
    /\ []((pc = "done" /\ response.kind # "none") =>
             /\ Len(sent) = 1
             /\ response.kind = "transport_failure" => result.kind = "HttpClient"
             /\ (response.kind = "response" /\ ~(200 <= response.status /\ response.status < 300))
                    => result.kind \in {"Api", "HttpClient"})
    /\ [][pc # "idle" => (sent' = sent \/ pc' = "idle")]_vars

C21_Witness ==
    /\ AfterCall("put_drive")
    /\ response.kind = "response"
    /\ response.status = 404
    /\ result.kind = "Api"
    /\ Len(sent) = 1

\* C23: when the HTTP exchange cannot be completed the operation returns
\* the transport error (HttpClient), never an Api error and never success.
C23_TransportFailureIsHttpClient ==
    (pc = "done" /\ response.kind = "transport_failure") =>
        /\ result = [kind |-> "HttpClient"]
        /\ result.kind \notin {"Api", "Ok"}

C23_Witness ==
    /\ AfterCall("describe_instance")
    /\ response.kind = "transport_failure"
    /\ result.kind = "HttpClient"

\* C25 (as claimed): in every request sent by put_drive (resp.
\* put_network_interface) the id in the URL path drives/{id} (resp.
\* network-interfaces/{id}) equals the drive_id (resp. iface_id) member of
\* the JSON body.
C25_UrlIdIsBodyId ==
    \A i \in 1..Len(sent) :
        /\ call.op = "put_drive" =>
               sent[i].url.path = <<SLASH, "drives", SLASH>> \o sent[i].body.drive_id.v
        /\ call.op = "put_network_interface" =>
               sent[i].url.path
                   = <<SLASH, "network-interfaces", SLASH>> \o sent[i].body.iface_id.v

\* a base address with a scheme and a host
HasSchemeAndHost(b) ==
    Len(b) >= 4 /\ b[1] = "http:" /\ b[2] = "/" /\ b[3] = "/" /\ b[4] # "/"

C27_ValidationBeforeUrl ==
    (pc = "done" /\ call.op \in ValidatingOps /\ ~HasSchemeAndHost(base_url)) =>
        result.kind = (IF validate(call.desc, call.F, call.M).errors # {}
                       THEN "Validation" ELSE "UrlParseError")

C27_Witness ==
    /\ AfterCall("put_vsock")
    /\ base_url = BaseNoScheme
    /\ call.desc.uds_path = PathRelative
    /\ result.kind = "Validation"

\* C28: validate_writable_path succeeds whenever the permission metadata
\* cannot be read: the path (or, for a missing path, its parent) is seen to
\* exist and is gone when its metadata is read.
C28_UnreadableMetadataAccepted ==
    (AfterCall("validate_writable_path") /\ validate_unix_path(call.path).ok) =>
        /\ (Stat(call.path, call.F) # Absent /\ Stat(call.path, call.M) = Absent) =>
               result.r = Ok
        /\ (/\ Stat(call.path, call.F) = Absent
            /\ parent(call.path) # None
            /\ Stat(parent(call.path)[1], call.F) # Absent
            /\ Stat(parent(call.path)[1], call.M) = Absent) =>
               result.r = Ok

C28_Witness ==
    /\ AfterCall("validate_writable_path")
    /\ call.path = PathA
    /\ call.F[<<NameA>>] = File(292)
    /\ Stat(PathA, call.M) = Absent
    /\ result.r = Ok

\* C29: validate_unix_path never returns path_invalid_format: a string that
\* passes the empty, absolute and illegal-content checks has at least one
\* path component; every error carries the code invalid_path and the three
\* failures differ only in their message.
C29_NeverInvalidFormat ==
    /\ EmptyPath.code = NotAbsolute.code /\ NotAbsolute.code = IllegalSegment.code
    /\ EmptyPath.message # NotAbsolute.message
    /\ EmptyPath.message # IllegalSegment.message
    /\ NotAbsolute.message # IllegalSegment.message
    /\ AfterCall("validate_unix_path") =>
           /\ result.r.code # "path_invalid_format"
           /\ ~result.r.ok =>
                  /\ result.r.code = "invalid_path"
                  /\ result.r \in {EmptyPath, NotAbsolute, IllegalSegment}
           /\ (/\ call.path # << >>
               /\ starts_with(call.path, SLASH)
               /\ ~contains_char(call.path, NUL)
               /\ ~contains_str(call.path, <<DOT, DOT>>)) =>
                  Len(components(call.path)) >= 1

C29_Witness ==
    /\ AfterCall("validate_unix_path")
    /\ call.path = <<SLASH>>
    /\ result.r = Ok

\* a 2xx response whose body does not decode into the operation's result type
Undecodable(opname, resp) ==
    \/ ~resp.body_arrives
    \/ resp.body = BodyEmpty
    \/ opname \in {"get_version", "describe_instance", "get_balloon_config",
                   "get_balloon_stats"}
    \/ opname = "get_vm_info" /\ resp.body # BodyVm

\* C30: a read operation that receives a 2xx response whose body cannot be
\* decoded into the expected type returns an error of the HttpClient kind,
\* never a success value and never the Serialization or Api kind.
C30_UndecodableBodyIsHttpClient ==
    (/\ pc = "done"
     /\ call.op \in ReadOps
     /\ response.kind = "response"
     /\ 200 <= response.status /\ response.status < 300) =>
        IF Undecodable(call.op, response)
        THEN result = [kind |-> "HttpClient"]
        ELSE result.kind = "Ok"

C30_Witness ==
    /\ AfterCall("get_version")
    /\ response.kind = "response"
    /\ response.status = 200
    /\ response.body = BodyVm
    /\ result.kind = "HttpClient"

\* the filesystem did not change between the reads of the call
NoRace(c) == "M" \in DOMAIN c => c.M = c.F

\* what the caller passed to the validator
Input(c) == IF c.op = "validate" THEN c.desc ELSE c.path

=============================================================================
